---- MODULE Spec2Model ----
(***************************************************************************)
(* The Derived operator of the vtgate planner (package operators): a       *)
(* derived table `(subquery) AS alias`, its column resolution, column and  *)
(* predicate pushdown, and cloning.                                        *)
(***************************************************************************)
EXTENDS Integers, Sequences, FiniteSets, TLC

VARIABLES
    node,    \* the Derived nodes: the original and its clone
    mem,     \* backing store of the slices the nodes hold (Columns, ColumnsOffset, ColumnAliases)
    ret,     \* what the last operation returned to its caller
    trace,   \* the calls the last operation made on its Source
    pin,     \* input of the pure function under check
    pout,    \* its result
    firstQP, \* history: per node, what its first successful getQP returned
    life,             \* the client connections: not yet accepted, open, gone
    session,          \* c.ClientData of each connection: its vtgate session
    handler,          \* the handler call running on each connection and where it is
    connections,      \* vh.connections
    busyConnections,  \* the package counter of busy connections
    listeners,        \* mysqlListener and mysqlUnixListener
    vtgateHandle,     \* the package handle of the handler
    netClosed,        \* the connections c.Close() was called on
    drain,            \* the call of shutdownMysqlProtocolAndDrain
    rb                \* the call of rollbackAtShutdown

derivedVars == <<node, mem, ret, trace, pin, pout, firstQP>>
serverVars == <<life, session, handler, connections, busyConnections, listeners,
                vtgateHandle, netClosed, drain, rb>>
vars == <<node, mem, ret, trace, pin, pout, firstQP, life, session, handler, connections,
          busyConnections, listeners, vtgateHandle, netClosed, drain, rb>>

(* ------------------------------ bounds -------------------------------- *)
MaxCols == 3        \* Columns grows to at most this many entries
MaxPureDepth == 2   \* nesting depth of aggregate calls for the checks of canBePushedDownIntoDerived
MaxSelectLen == 3   \* length of the select lists for the checks of findOutputColumn

(* --------------------------- expressions ------------------------------ *)
\* semantics.TableSet of the derived table in the outer scope, of another
\* outer table, and of the table inside the subquery
DerivedTableId == 1
OtherTableId == 2
InnerTableId == 3

\* *sqlparser.ColName: Name, Qualifier; tbl is the table the semantic table binds it to
Col(name, qual, tbl) == [op |-> "col", name |-> name, qual |-> qual, tbl |-> tbl, args |-> <<>>]
\* a literal
Lit == [op |-> "lit", name |-> "1", qual |-> "", tbl |-> 0, args |-> <<>>]
\* function call, comparison, aggregate: an operator over argument expressions
Fn(op, args) == [op |-> op, name |-> "", qual |-> "", tbl |-> 0, args |-> args]

\* sqlparser.AggrFunc implementations
AggrOps == {"max", "min", "count", "sum"}
MinMaxOps == {"max", "min"}

\* slip: every expression passes for a column reference
IsColName_Any(e) == TRUE

IsColName(e) == e.op = "col"

\* select items: *sqlparser.AliasedExpr (As empty when as = "") or *sqlparser.StarExpr
Aliased(expr, as) == [kind |-> "aliased", as |-> as, expr |-> expr]
Star == [kind |-> "star", as |-> "", expr |-> Lit]

(* ------------------------- error kinds -------------------------------- *)
NoErr == "nil"
VT12001 == "VT12001 unsupported: complex expression needs column alias"
VT03014 == "VT03014 unknown column in field list"
VT13001 == "VT13001 internal"
ErrNotSingleTable == "ErrNotSingleTable"
OtherErr == "semantics error"
SourceErr == "source error"
Panic == "panic: nil pointer dereference"
PanicConversion == "panic: interface conversion"
PanicIndex == "panic: index out of range"
QPErr == "CreateQPFromSelect error"

(* ---------------------- Derived.findOutputColumn ---------------------- *)
\* slip: a star is only noticed as the first select item
RECURSIVE findOutputColumnFrom_StarFirstOnly(_, _, _, _)
findOutputColumnFrom_StarFirstOnly(sel, j, name, hasStar) ==
    IF j >= Len(sel)
    THEN IF hasStar
         THEN [idx |-> -1, err |-> NoErr]
         ELSE [idx |-> 0, err |-> VT03014]
    ELSE LET exp == sel[j + 1] IN
         IF exp.kind = "aliased"
         THEN IF exp.as # "" /\ exp.as = name.name
              THEN [idx |-> j, err |-> NoErr]
              ELSE IF exp.as = ""
                   THEN IF ~IsColName(exp.expr)
                        THEN [idx |-> 0, err |-> VT12001]
                        ELSE IF name.name = exp.expr.name
                             THEN [idx |-> j, err |-> NoErr]
                             ELSE findOutputColumnFrom_StarFirstOnly(sel, j + 1, name, hasStar)
                   ELSE findOutputColumnFrom_StarFirstOnly(sel, j + 1, name, hasStar)
         ELSE findOutputColumnFrom_StarFirstOnly(sel, j + 1, name, hasStar \/ j = 0)

\* slip: an aliased column is also found under the name of its column
RECURSIVE findOutputColumnFrom_UnderlyingName(_, _, _, _)
findOutputColumnFrom_UnderlyingName(sel, j, name, hasStar) ==
    IF j >= Len(sel)
    THEN IF hasStar
         THEN [idx |-> -1, err |-> NoErr]
         ELSE [idx |-> 0, err |-> VT03014]
    ELSE LET exp == sel[j + 1] IN
         IF exp.kind = "aliased"
         THEN IF exp.as # "" /\ exp.as = name.name
              THEN [idx |-> j, err |-> NoErr]
              ELSE IF ~IsColName(exp.expr)
                   THEN IF exp.as = ""
                        THEN [idx |-> 0, err |-> VT12001]
                        ELSE findOutputColumnFrom_UnderlyingName(sel, j + 1, name, hasStar)
                   ELSE IF name.name = exp.expr.name
                        THEN [idx |-> j, err |-> NoErr]
                        ELSE findOutputColumnFrom_UnderlyingName(sel, j + 1, name, hasStar)
         ELSE findOutputColumnFrom_UnderlyingName(sel, j + 1, name, TRUE)

\* slip: a name that is not found is always left to a wildcard
RECURSIVE findOutputColumnFrom_NoUnknown(_, _, _, _)
findOutputColumnFrom_NoUnknown(sel, j, name, hasStar) ==
    IF j >= Len(sel)
    THEN [idx |-> -1, err |-> NoErr]
    ELSE LET exp == sel[j + 1] IN
         IF exp.kind = "aliased"
         THEN IF exp.as # "" /\ exp.as = name.name
              THEN [idx |-> j, err |-> NoErr]
              ELSE IF exp.as = ""
                   THEN IF ~IsColName(exp.expr)
                        THEN [idx |-> 0, err |-> VT12001]
                        ELSE IF name.name = exp.expr.name
                             THEN [idx |-> j, err |-> NoErr]
                             ELSE findOutputColumnFrom_NoUnknown(sel, j + 1, name, hasStar)
                   ELSE findOutputColumnFrom_NoUnknown(sel, j + 1, name, hasStar)
         ELSE findOutputColumnFrom_NoUnknown(sel, j + 1, name, TRUE)

\* the loop over GetFirstSelect(d.Query).SelectExprs, from item j on (0-based)
RECURSIVE findOutputColumnFrom(_, _, _, _)
findOutputColumnFrom(sel, j, name, hasStar) ==
    IF j >= Len(sel)
    THEN IF hasStar
         THEN [idx |-> -1, err |-> NoErr]
         ELSE [idx |-> 0, err |-> VT03014]
    ELSE LET exp == sel[j + 1] IN
         IF exp.kind = "aliased"
         THEN IF exp.as # "" /\ exp.as = name.name
              THEN [idx |-> j, err |-> NoErr]
              ELSE IF exp.as = ""
                   THEN IF ~IsColName(exp.expr)
                        THEN [idx |-> 0, err |-> VT12001]
                        ELSE IF name.name = exp.expr.name
                             THEN [idx |-> j, err |-> NoErr]
                             ELSE findOutputColumnFrom(sel, j + 1, name, hasStar)
                   ELSE findOutputColumnFrom(sel, j + 1, name, hasStar)
         ELSE findOutputColumnFrom(sel, j + 1, name, TRUE)

findOutputColumn(query, name) == findOutputColumnFrom(query, 0, name, FALSE)

(* -------------------- canBePushedDownIntoDerived ---------------------- *)
\* sqlparser.Walk: pre-order; the visitor returns (kontinue, err). An error
\* aborts the whole walk, kontinue = false skips the children of the node.
\* The walk state is the captured canBePushed and whether the walk aborted.
\* slip: MIN/MAX end the descent, their arguments are not visited
pushVisit_SkipMinMaxArgs(n, st) ==
    IF n.op \in MinMaxOps
    THEN [kontinue |-> FALSE, abort |-> FALSE, canBePushed |-> st.canBePushed]
    ELSE IF n.op \in AggrOps
         THEN [kontinue |-> FALSE, abort |-> TRUE, canBePushed |-> FALSE]
         ELSE [kontinue |-> TRUE, abort |-> FALSE, canBePushed |-> st.canBePushed]

\* slip: only SUM is taken for an aggregate
pushVisit_SumOnly(n, st) ==
    IF n.op \in MinMaxOps
    THEN [kontinue |-> TRUE, abort |-> FALSE, canBePushed |-> st.canBePushed]
    ELSE IF n.op = "sum"
         THEN [kontinue |-> FALSE, abort |-> TRUE, canBePushed |-> FALSE]
         ELSE [kontinue |-> TRUE, abort |-> FALSE, canBePushed |-> st.canBePushed]

pushVisit(n, st) ==
    IF n.op \in MinMaxOps
    THEN [kontinue |-> TRUE, abort |-> FALSE, canBePushed |-> st.canBePushed]
    ELSE IF n.op \in AggrOps
         THEN [kontinue |-> FALSE, abort |-> TRUE, canBePushed |-> FALSE]
         ELSE [kontinue |-> TRUE, abort |-> FALSE, canBePushed |-> st.canBePushed]

RECURSIVE Walk(_, _)
RECURSIVE WalkArgs(_, _, _)
Walk(n, st) ==
    IF st.abort THEN st
    ELSE LET v == pushVisit(n, st)
             st2 == [abort |-> v.abort, canBePushed |-> v.canBePushed]
         IN IF v.abort \/ ~v.kontinue THEN st2 ELSE WalkArgs(n.args, 1, st2)
WalkArgs(args, i, st) ==
    IF i > Len(args) \/ st.abort THEN st
    ELSE WalkArgs(args, i + 1, Walk(args[i], st))

canBePushedDownIntoDerived(expr) ==
    Walk(expr, [abort |-> FALSE, canBePushed |-> TRUE]).canBePushed

(* ------------------------- addToIntSlice ------------------------------ *)
RECURSIVE indexOfInt(_, _, _)
indexOfInt(s, idx, val) ==
    IF idx >= Len(s) THEN -1
    ELSE IF s[idx + 1] = val THEN idx ELSE indexOfInt(s, idx + 1, val)

\* slip: only the last value is looked at
addToIntSlice_LastOnly(columnOffset, valToAdd) ==
    IF columnOffset # <<>> /\ columnOffset[Len(columnOffset)] = valToAdd
    THEN [slice |-> columnOffset, pos |-> Len(columnOffset) - 1]
    ELSE [slice |-> Append(columnOffset, valToAdd), pos |-> Len(columnOffset)]

\* slip: the value is appended without looking for it
addToIntSlice_NoDedup(columnOffset, valToAdd) ==
    [slice |-> Append(columnOffset, valToAdd), pos |-> Len(columnOffset)]

\* slip: a value that is found is reported at the last position
addToIntSlice_LastPos(columnOffset, valToAdd) ==
    LET idx == indexOfInt(columnOffset, 0, valToAdd) IN
    IF idx >= 0
    THEN [slice |-> columnOffset, pos |-> Len(columnOffset) - 1]
    ELSE [slice |-> Append(columnOffset, valToAdd), pos |-> Len(columnOffset)]

addToIntSlice(columnOffset, valToAdd) ==
    LET idx == indexOfInt(columnOffset, 0, valToAdd) IN
    IF idx >= 0
    THEN [slice |-> columnOffset, pos |-> idx]
    ELSE [slice |-> Append(columnOffset, valToAdd), pos |-> Len(columnOffset)]

(* ----------------------- semantic context ----------------------------- *)
\* SemTable.EqualsExprWithDeps: structural equality of the expressions and
\* equality of the tables they depend on
EqualsExprWithDeps(a, b) ==
    /\ a.op = b.op /\ a.name = b.name /\ a.qual = b.qual /\ a.args = b.args
    /\ a.tbl = b.tbl

\* the tables an expression depends on
RECURSIVE DirectDeps(_)
DirectDeps(e) ==
    IF IsColName(e) THEN {e.tbl}
    ELSE UNION {DirectDeps(e.args[i]) : i \in 1..Len(e.args)}

\* SemTable.TableInfoForExpr: the table the expression is attributable to,
\* ErrNotSingleTable when it is not exactly one
TableInfoForExpr(expr) ==
    LET deps == DirectDeps(expr) IN
    IF Cardinality(deps) = 1
    THEN [tbl |-> CHOOSE t \in deps : TRUE, err |-> NoErr]
    ELSE [tbl |-> 0, err |-> ErrNotSingleTable]

(* --------------------------- canReuseColumn --------------------------- *)
RECURSIVE canReuseColumnFrom(_, _, _)
canReuseColumnFrom(columns, offset, col) ==
    IF offset >= Len(columns) THEN [offset |-> 0, found |-> FALSE]
    ELSE IF EqualsExprWithDeps(col, columns[offset + 1])
         THEN [offset |-> offset, found |-> TRUE]
         ELSE canReuseColumnFrom(columns, offset + 1, col)

\* slip: only the first column is compared
canReuseColumn_FirstOnly(columns, col) ==
    IF Len(columns) > 0 /\ EqualsExprWithDeps(col, columns[1])
    THEN [offset |-> 0, found |-> TRUE]
    ELSE [offset |-> 0, found |-> FALSE]

canReuseColumn(columns, col) == canReuseColumnFrom(columns, 0, col)

\* TableInfo.getExprFor of the derived table: the select item the outer
\* column name stands for (by the explicit column alias list when there is
\* one, by the item's alias or bare column name otherwise); 0 when none
columnNameOf(query, aliases, i) ==
    IF i <= Len(aliases) THEN aliases[i]
    ELSE IF query[i].kind # "aliased" THEN ""
    ELSE IF query[i].as # "" THEN query[i].as
    ELSE IF IsColName(query[i].expr) THEN query[i].expr.name
    ELSE ""

getExprFor(query, aliases, name) ==
    LET hits == {i \in 1..Len(query) : columnNameOf(query, aliases, i) = name} IN
    IF hits = {} THEN 0 ELSE CHOOSE i \in hits : \A k \in hits : i <= k

\* semantics.RewriteDerivedTableExpression: every column reference of the
\* outer scope is replaced by the expression it names inside the subquery;
\* a column the table does not define only loses its qualifier
RECURSIVE RewriteDerivedTableExpression(_, _, _, _)
RewriteDerivedTableExpression(expr, tableInfo, query, aliases) ==
    IF IsColName(expr)
    THEN LET i == IF tableInfo.tbl = DerivedTableId
                  THEN getExprFor(query, aliases, expr.name) ELSE 0
         IN IF i # 0 /\ query[i].kind = "aliased"
            THEN query[i].expr
            ELSE IF tableInfo.tbl = DerivedTableId
                 THEN Col(expr.name, "", InnerTableId)
                 ELSE Col(expr.name, "", expr.tbl)
    ELSE [expr EXCEPT !.args =
            [k \in 1..Len(expr.args) |->
                RewriteDerivedTableExpression(expr.args[k], tableInfo, query, aliases)]]

(* ------------------------- operators ---------------------------------- *)
Nodes == {"orig", "clone"}
Fields == {"Columns", "ColumnsOffset", "ColumnAliases"}
Refs == Nodes \X Fields

\* the operators a Derived can have as its Source
OpKinds == {"Union", "Route"}
SourceOps == [kind : OpKinds]
NilOp == [kind |-> "nil"]

\* roots handed back to the caller
NilRoot == [kind |-> "nil", node |-> "", Predicates |-> <<>>]
DerivedRoot(n) == [kind |-> "Derived", node |-> n, Predicates |-> <<>>]
\* &Filter{Source: d, Predicates: []sqlparser.Expr{expr}}
FilterRoot(n, expr) == [kind |-> "Filter", node |-> n, Predicates |-> <<expr>>]

NilQP == "nil"

\* what Source.AddColumn and Source.AddPredicate can answer
SourceAddColumnOutcomes(src) ==
    [root : SourceOps, err : {NoErr}] \cup [root : {NilOp}, err : {SourceErr}]
SourceAddPredicateOutcomes(src) ==
    [root : SourceOps, err : {NoErr}] \cup [root : {NilOp, src}, err : {SourceErr}]

\* the Source answers only when it is called: one placeholder answer otherwise
NoAnswer == [root |-> NilOp, err |-> NoErr]
AnswersNeeded(outcomes, calls) == IF calls = <<>> THEN {NoAnswer} ELSE outcomes

Call(method, recv, arg, out) ==
    [method |-> method, recv |-> recv, arg |-> arg, out |-> out]

\* the last call on a node (op, receiver, argument, what the semantic table
\* answered with) and what it returned
Ret(op, recv, arg, sem, root, offset, err) ==
    [op |-> op, recv |-> recv, arg |-> arg, sem |-> sem,
     root |-> root, offset |-> offset, err |-> err]

\* the slices of a node
Columns(n) == mem[node[n].Columns]
ColumnsOffset(n) == mem[node[n].ColumnsOffset]
ColumnAliases(n) == mem[node[n].ColumnAliases]

(* --------------------------- inputs ----------------------------------- *)
InnerCol(name) == Col(name, "", InnerTableId)

\* SELECT *, COUNT(x) AS y
QStarCount == <<Star, Aliased(Fn("count", <<InnerCol("x")>>), "y")>>
\* SELECT a, a AS y
QNamed == <<Aliased(InnerCol("a"), ""), Aliased(InnerCol("a"), "y")>>
\* SELECT a
QOne == <<Aliased(InnerCol("a"), "")>>
\* SELECT MAX(x) AS a, *
QMaxStar == <<Aliased(Fn("max", <<InnerCol("x")>>), "a"), Star>>
\* SELECT a, COUNT(x)
QComplex == <<Aliased(InnerCol("a"), ""), Aliased(Fn("count", <<InnerCol("x")>>), "")>>
\* SELECT *
QStar == <<Star>>

\* the subqueries with their explicit column alias lists: (...) AS dt or (...) AS dt(y, a)
Subqueries ==
    {<<q, <<>>>> : q \in {QStarCount, QNamed, QOne, QMaxStar, QComplex, QStar}}
    \cup {<<QNamed, <<"y", "a">>>>}

\* the columns the outer query asks for: a, dt.a, y
ColUniverse ==
    {Col("a", "", DerivedTableId), Col("a", "dt", DerivedTableId), Col("y", "", DerivedTableId)}

AddColumnInputs == ColUniverse \cup {Fn("count", <<Col("a", "", DerivedTableId)>>)}

(* ===================== the MySQL protocol server ====================== *)
\* the connections a run can see
Conns == {"c1", "c2"}

\* the handler calls that run a statement
Commands == {"ComQuery", "ComPrepare", "ComStmtExecute"}

\* no handler call is running on the connection
Idle == [op |-> "none", pc |-> "none", decr |-> FALSE, err |-> FALSE]

\* the session vh.session(c) creates: not in a transaction
NewSession == [InTransaction |-> FALSE]

\* the process runs no MySQL server
NoServer ==
    /\ life = [c \in Conns |-> "new"]
    /\ session = [c \in Conns |-> NewSession]
    /\ handler = [c \in Conns |-> Idle]
    /\ connections = {}
    /\ busyConnections = 0
    /\ listeners = [tcp |-> "nil", unix |-> "nil"]
    /\ vtgateHandle = "nil"
    /\ netClosed = {}
    /\ drain = [pc |-> "none", observed |-> 0, waited |-> FALSE]
    /\ rb = [pc |-> "none", i |-> 0]

(* ------------------------------ Init ---------------------------------- *)
NoNode ==
    [exists |-> FALSE, Source |-> NilOp, TableId |-> 0, QP |-> NilQP, Query |-> <<>>,
     QueryType |-> "Select",
     Alias |-> "", ColumnAliases |-> <<"clone", "ColumnAliases">>,
     Columns |-> <<"clone", "Columns">>, ColumnsOffset |-> <<"clone", "ColumnsOffset">>]

\* the derived table over the statement whose first select has the list
\* query: a *sqlparser.Union planned as a Union operator, a
\* *sqlparser.Select otherwise
NewDerived(n, src, query) ==
    [exists |-> TRUE, Source |-> src, TableId |-> DerivedTableId, QP |-> NilQP,
     Query |-> query, QueryType |-> IF src.kind = "Union" THEN "Union" ELSE "Select",
     Alias |-> "dt", ColumnAliases |-> <<n, "ColumnAliases">>,
     Columns |-> <<n, "Columns">>, ColumnsOffset |-> <<n, "ColumnsOffset">>]

NoRet == Ret("none", "", Lit, NoErr, NilRoot, 0, NoErr)

Init ==
    \E sq \in Subqueries, src \in SourceOps :
        /\ node = [n \in Nodes |-> IF n = "orig" THEN NewDerived(n, src, sq[1]) ELSE NoNode]
        /\ mem = [r \in Refs |-> IF r = <<"orig", "ColumnAliases">> THEN sq[2] ELSE <<>>]
        /\ ret = NoRet
        /\ trace = <<>>
        /\ pin = <<>>
        /\ pout = <<>>
        /\ firstQP = [n \in Nodes |-> NilQP]
        /\ NoServer

(* --------------------------- Derived.Clone ---------------------------- *)
\* slip: the clone is handed the slices of the original
CloneNode_Shared(d, c, input) ==
    [exists |-> TRUE, Source |-> input, TableId |-> node[d].TableId, QP |-> NilQP,
     Query |-> node[d].Query, QueryType |-> node[d].QueryType, Alias |-> node[d].Alias,
     ColumnAliases |-> node[d].ColumnAliases,
     Columns |-> node[d].Columns, ColumnsOffset |-> node[d].ColumnsOffset]

\* slip: the clone keeps the child of the original
CloneNode_KeepSource(d, c, input) ==
    [exists |-> TRUE, Source |-> node[d].Source, TableId |-> node[d].TableId, QP |-> NilQP,
     Query |-> node[d].Query, QueryType |-> node[d].QueryType, Alias |-> node[d].Alias,
     ColumnAliases |-> <<c, "ColumnAliases">>,
     Columns |-> <<c, "Columns">>, ColumnsOffset |-> <<c, "ColumnsOffset">>]

\* the node Clone builds in slot c from d and the given input
CloneNode(d, c, input) ==
    [exists |-> TRUE, Source |-> input, TableId |-> node[d].TableId, QP |-> NilQP,
     Query |-> node[d].Query, QueryType |-> node[d].QueryType, Alias |-> node[d].Alias,
     ColumnAliases |-> <<c, "ColumnAliases">>,
     Columns |-> <<c, "Columns">>, ColumnsOffset |-> <<c, "ColumnsOffset">>]

Clone(input) ==
    /\ node["orig"].exists
    /\ LET c == CloneNode("orig", "clone", input) IN
       /\ node' = [node EXCEPT !["clone"] = c]
       /\ mem' = [mem EXCEPT ![c.Columns] = Columns("orig"),
                             ![c.ColumnsOffset] = ColumnsOffset("orig"),
                             ![c.ColumnAliases] = ColumnAliases("orig")]
    /\ ret' = Ret("Clone", "orig", Lit, NoErr, DerivedRoot("clone"), 0, NoErr)
              @@ [inputs |-> <<input>>]
    /\ trace' = <<>>
    /\ firstQP' = [firstQP EXCEPT !["clone"] = NilQP]
    /\ UNCHANGED <<pin, pout>>
    /\ UNCHANGED serverVars

(* -------------------------- Derived.AddColumn ------------------------- *)
\* slip: the sentinel is missed by one
notPassedThrough_OffByOne(i) == i < -1

\* add it to the source if we were not already passing it through: i <= -1
notPassedThrough(i) == i <= -1

\* the effect of d.AddColumn(ctx, expr, _, addToGroupBy) on node n, where
\* out is what Source.AddColumn answers if it is called. addToGroupBy is
\* only handed on to the Source, whose answer is out whatever the flag is.
AddColumnResult(n, expr, out) ==
    LET d == node[n]
        unchanged == [Columns |-> Columns(n), ColumnsOffset |-> ColumnsOffset(n),
                      Source |-> d.Source, calls |-> <<>>]
    IN
    IF ~IsColName(expr)
    THEN unchanged @@ [root |-> NilRoot, offset |-> 0, err |-> VT13001]
    ELSE
    LET reuse == canReuseColumn(Columns(n), expr) IN
    IF reuse.found
    THEN unchanged @@ [root |-> DerivedRoot(n), offset |-> reuse.offset, err |-> NoErr]
    ELSE
    LET f == findOutputColumn(d.Query, expr) IN
    IF f.err # NoErr
    THEN unchanged @@ [root |-> NilRoot, offset |-> 0, err |-> f.err]
    ELSE
    LET added == addToIntSlice(ColumnsOffset(n), f.idx)
        grown == [Columns |-> Append(Columns(n), expr), ColumnsOffset |-> added.slice]
        \* aeWrap(sqlparser.NewColName(col.Name.String()))
        arg == Col(expr.name, "", 0)
    IN
    IF notPassedThrough(f.idx)
    THEN IF d.Source = NilOp
         THEN grown @@ [Source |-> d.Source, calls |-> <<>>,
                        root |-> NilRoot, offset |-> 0, err |-> Panic]
         ELSE LET call == Call("AddColumn", d.Source, arg, out) IN
              IF out.err # NoErr
              THEN grown @@ [Source |-> d.Source, calls |-> <<call>>,
                             root |-> NilRoot, offset |-> 0, err |-> out.err]
              ELSE grown @@ [Source |-> out.root, calls |-> <<call>>,
                             root |-> DerivedRoot(n), offset |-> added.pos, err |-> NoErr]
    ELSE grown @@ [Source |-> d.Source, calls |-> <<>>,
                   root |-> DerivedRoot(n), offset |-> added.pos, err |-> NoErr]

AddColumn(n, expr) ==
    /\ node[n].exists
    /\ \E out \in AnswersNeeded(SourceAddColumnOutcomes(node[n].Source),
                                 AddColumnResult(n, expr, NoAnswer).calls) :
         LET r == AddColumnResult(n, expr, out) IN
         /\ Len(r.Columns) <= MaxCols
         /\ node' = [node EXCEPT ![n].Source = r.Source]
         /\ mem' = [mem EXCEPT ![node[n].Columns] = r.Columns,
                               ![node[n].ColumnsOffset] = r.ColumnsOffset]
         /\ ret' = Ret("AddColumn", n, expr, NoErr, r.root, r.offset, r.err)
         /\ trace' = r.calls
    /\ UNCHANGED <<pin, pout, firstQP>>
    /\ UNCHANGED serverVars

(* ------------------------- Derived.AddPredicate ----------------------- *)
\* slip: the operator the Union returns is dropped
delegateToUnion_KeepSource(n, d, expr, out) ==
    [Source |-> d.Source, calls |-> <<Call("AddPredicate", d.Source, expr, out)>>,
     root |-> DerivedRoot(n), err |-> out.err]

\* the union case: the Source does the rewriting
delegateToUnion(n, d, expr, out) ==
    [Source |-> out.root, calls |-> <<Call("AddPredicate", d.Source, expr, out)>>,
     root |-> DerivedRoot(n), err |-> out.err]

\* slip: ErrNotSingleTable is passed on like any other error
onTableInfoError_NoFilter(n, d, expr, err) ==
    [Source |-> d.Source, calls |-> <<>>, root |-> NilRoot, err |-> err]

\* TableInfoForExpr failed
onTableInfoError(n, d, expr, err) ==
    IF err = ErrNotSingleTable
    THEN [Source |-> d.Source, calls |-> <<>>, root |-> FilterRoot(n, expr), err |-> NoErr]
    ELSE [Source |-> d.Source, calls |-> <<>>, root |-> NilRoot, err |-> err]

\* an aggregation is not pushed inside: the filter stays on top
keepAbove(n, d, expr) ==
    [Source |-> d.Source, calls |-> <<>>, root |-> FilterRoot(n, expr), err |-> NoErr]

\* slip: the operator the Source returns is dropped
pushIntoSource_KeepSource(n, d, newExpr, out) ==
    IF d.Source = NilOp
    THEN [Source |-> d.Source, calls |-> <<>>, root |-> NilRoot, err |-> Panic]
    ELSE LET call == Call("AddPredicate", d.Source, newExpr, out) IN
         IF out.err # NoErr
         THEN [Source |-> d.Source, calls |-> <<call>>, root |-> NilRoot, err |-> out.err]
         ELSE [Source |-> d.Source, calls |-> <<call>>, root |-> DerivedRoot(n), err |-> NoErr]

\* d.Source, err = d.Source.AddPredicate(ctx, newExpr)
pushIntoSource(n, d, newExpr, out) ==
    IF d.Source = NilOp
    THEN [Source |-> d.Source, calls |-> <<>>, root |-> NilRoot, err |-> Panic]
    ELSE LET call == Call("AddPredicate", d.Source, newExpr, out) IN
         IF out.err # NoErr
         THEN [Source |-> out.root, calls |-> <<call>>, root |-> NilRoot, err |-> out.err]
         ELSE [Source |-> out.root, calls |-> <<call>>, root |-> DerivedRoot(n), err |-> NoErr]

\* the effect of d.AddPredicate(ctx, expr) on node n; semErr is an error of
\* the semantic table other than ErrNotSingleTable (NoErr when it has none),
\* out is what Source.AddPredicate answers if it is called
AddPredicateResult(n, expr, semErr, out) ==
    LET d == node[n] IN
    IF d.Source.kind = "Union"
    THEN delegateToUnion(n, d, expr, out)
    ELSE
    LET tableInfo == IF semErr # NoErr THEN [tbl |-> 0, err |-> semErr]
                     ELSE TableInfoForExpr(expr) IN
    IF tableInfo.err # NoErr
    THEN onTableInfoError(n, d, expr, tableInfo.err)
    ELSE
    LET newExpr == RewriteDerivedTableExpression(expr, tableInfo, d.Query, ColumnAliases(n)) IN
    IF ~canBePushedDownIntoDerived(newExpr)
    THEN keepAbove(n, d, expr)
    ELSE pushIntoSource(n, d, newExpr, out)

AddPredicate(n, expr, semErr) ==
    /\ node[n].exists
    /\ \E out \in AnswersNeeded(SourceAddPredicateOutcomes(node[n].Source),
                                 AddPredicateResult(n, expr, semErr, NoAnswer).calls) :
         LET r == AddPredicateResult(n, expr, semErr, out) IN
         /\ node' = [node EXCEPT ![n].Source = r.Source]
         /\ ret' = Ret("AddPredicate", n, expr, semErr, r.root, 0, r.err)
         /\ trace' = r.calls
    /\ UNCHANGED <<mem, pin, pout, firstQP>>
    /\ UNCHANGED serverVars

(* ------------------ Derived.getQP, setQP, GetOrdering ------------------ *)
\* *QueryProjection values: the ones CreateQPFromSelect allocates for the
\* subquery, and one a caller built itself
BuiltQPs == {"built1", "built2"}
GivenQPs == {"given"}

\* qp.OrderExprs: the subquery is ordered by a, the projection a caller
\* built itself has no ordering
OrderExprs(qp) == IF qp \in BuiltQPs THEN <<InnerCol("a")>> ELSE <<>>

\* what CreateQPFromSelect can answer
CreateQPFromSelectOutcomes ==
    [qp : BuiltQPs, err : {NoErr}] \cup [qp : {NilQP}, err : {QPErr}]

\* CreateQPFromSelect answers only when it is called: one placeholder answer otherwise
NoQPAnswer == [qp |-> NilQP, err |-> NoErr]

\* the effect of d.getQP(ctx) on node n, where out is what
\* CreateQPFromSelect answers if it is called
getQPResult(n, out) ==
    LET d == node[n] IN
    IF d.QP # NilQP
    THEN [QP |-> d.QP, calls |-> <<>>, qp |-> d.QP, err |-> NoErr]
    ELSE IF d.QueryType # "Select"
    THEN [QP |-> d.QP, calls |-> <<>>, qp |-> NilQP, err |-> PanicConversion]
    ELSE LET call == Call("CreateQPFromSelect", NilOp, d.Query, out) IN
         IF out.err # NoErr
         THEN [QP |-> d.QP, calls |-> <<call>>, qp |-> NilQP, err |-> out.err]
         ELSE [QP |-> out.qp, calls |-> <<call>>, qp |-> out.qp, err |-> NoErr]

getQP(n) ==
    /\ node[n].exists
    /\ \E out \in IF getQPResult(n, NoQPAnswer).calls = <<>>
                 THEN {NoQPAnswer}
                 ELSE CreateQPFromSelectOutcomes :
         LET r == getQPResult(n, out) IN
         /\ node' = [node EXCEPT ![n].QP = r.QP]
         /\ ret' = Ret("getQP", n, Lit, NoErr, NilRoot, 0, r.err) @@ [qp |-> r.qp]
         /\ trace' = r.calls
         /\ firstQP' = IF r.err = NoErr /\ firstQP[n] = NilQP
                       THEN [firstQP EXCEPT ![n] = r.qp]
                       ELSE firstQP
    /\ UNCHANGED <<mem, pin, pout>>
    /\ UNCHANGED serverVars

setQP(n, qp) ==
    /\ node[n].exists
    /\ node' = [node EXCEPT ![n].QP = qp]
    /\ ret' = Ret("setQP", n, Lit, NoErr, NilRoot, 0, NoErr) @@ [qp |-> qp]
    /\ trace' = <<>>
    /\ UNCHANGED <<mem, pin, pout, firstQP>>
    /\ UNCHANGED serverVars

\* slip: a missing projection is reported as no ordering
GetOrderingResult_NilIsUnordered(n) ==
    IF node[n].QP = NilQP
    THEN [ordering |-> <<>>, err |-> NoErr]
    ELSE [ordering |-> OrderExprs(node[n].QP), err |-> NoErr]

\* what d.GetOrdering() returns on node n
GetOrderingResult(n) ==
    IF node[n].QP = NilQP
    THEN [ordering |-> <<>>, err |-> VT13001]
    ELSE [ordering |-> OrderExprs(node[n].QP), err |-> NoErr]

GetOrdering(n) ==
    /\ node[n].exists
    /\ LET r == GetOrderingResult(n) IN
       ret' = Ret("GetOrdering", n, Lit, NoErr, NilRoot, 0, r.err) @@ [ordering |-> r.ordering]
    /\ trace' = <<>>
    /\ UNCHANGED <<node, mem, pin, pout, firstQP>>
    /\ UNCHANGED serverVars

(* --------------------- Derived.Inputs, SetInputs ----------------------- *)
\* []ops.Operator{d.Source}
Inputs(n) ==
    /\ node[n].exists
    /\ ret' = Ret("Inputs", n, Lit, NoErr, NilRoot, 0, NoErr) @@ [ops |-> <<node[n].Source>>]
    /\ trace' = <<>>
    /\ UNCHANGED <<node, mem, pin, pout, firstQP>>
    /\ UNCHANGED serverVars

\* slip: the last child is taken
firstInput_Last(ops) == ops[Len(ops)]

\* ops[0]
firstInput(ops) == ops[1]

\* d.Source = ops[0]
SetInputs(n, ops) ==
    /\ node[n].exists
    /\ IF ops = <<>>
       THEN /\ ret' = Ret("SetInputs", n, Lit, NoErr, NilRoot, 0, PanicIndex) @@ [ops |-> ops]
            /\ node' = node
       ELSE /\ ret' = Ret("SetInputs", n, Lit, NoErr, NilRoot, 0, NoErr) @@ [ops |-> ops]
            /\ node' = [node EXCEPT ![n].Source = firstInput(ops)]
    /\ trace' = <<>>
    /\ UNCHANGED <<mem, pin, pout, firstQP>>
    /\ UNCHANGED serverVars

(* ------------------------ predicates asked for ------------------------ *)
\* the columns a predicate of the outer query can mention: y and a of the
\* derived table, a of another table
PredCols == {Col("y", "", DerivedTableId), Col("a", "dt", DerivedTableId),
             Col("a", "t2", OtherTableId)}

\* c > 1, MAX(c) > 1, COUNT(c) > 1 and c = t2.a
PredInputs ==
    {Fn("cmp", <<t, Lit>>) :
        t \in PredCols \cup {Fn(op, <<c>>) : op \in {"max", "count"}, c \in PredCols}}
    \cup {Fn("cmp", <<c, Col("a", "t2", OtherTableId)>>) : c \in PredCols}

(* ------------------------------ Next ---------------------------------- *)
\* column pushdown and cloning, on the original and on its clone
NextCols ==
    \/ \E n \in Nodes, expr \in AddColumnInputs : AddColumn(n, expr)
    \/ \E input \in SourceOps : Clone(input)

SpecCols == Init /\ [][NextCols]_vars

\* predicate and column pushdown on one node
NextPred ==
    \/ \E expr \in PredInputs, semErr \in {NoErr, OtherErr} : AddPredicate("orig", expr, semErr)
    \/ \E expr \in AddColumnInputs : AddColumn("orig", expr)

SpecPred == Init /\ [][NextPred]_vars

\* the projection cache of one node, with the operations that share the node
QPSubqueries == {<<QStar, <<>>>>, <<QOne, <<>>>>}
QPColumnInputs == {Col("a", "", DerivedTableId), Fn("count", <<Col("a", "", DerivedTableId)>>)}
QPPredInputs == {Fn("cmp", <<Col("a", "dt", DerivedTableId), Lit>>),
                 Fn("cmp", <<Fn("count", <<Col("a", "dt", DerivedTableId)>>), Lit>>)}

\* the lists handed to SetInputs: none, one or two children, and what
\* Inputs of the node returns
SetInputsInputs(n) ==
    {<<>>, <<node[n].Source>>, <<[kind |-> "Union"], [kind |-> "Route"]>>}
    \cup {<<src>> : src \in SourceOps}

InitQP ==
    \E sq \in QPSubqueries, src \in SourceOps :
        /\ node = [n \in Nodes |-> IF n = "orig" THEN NewDerived(n, src, sq[1]) ELSE NoNode]
        /\ mem = [r \in Refs |-> IF r = <<"orig", "ColumnAliases">> THEN sq[2] ELSE <<>>]
        /\ ret = NoRet
        /\ trace = <<>>
        /\ pin = <<>>
        /\ pout = <<>>
        /\ firstQP = [n \in Nodes |-> NilQP]
        /\ NoServer

NextQP ==
    \/ getQP("orig")
    \/ \E qp \in BuiltQPs \cup GivenQPs : setQP("orig", qp)
    \/ \E n \in Nodes : GetOrdering(n)
    \/ \E input \in SourceOps : Clone(input)
    \/ \E ops \in SetInputsInputs("orig") : SetInputs("orig", ops)
    \/ Inputs("orig")
    \/ \E expr \in QPColumnInputs : AddColumn("orig", expr)
    \/ \E expr \in QPPredInputs : AddPredicate("orig", expr, NoErr)

SpecQP == InitQP /\ [][NextQP]_vars

(* ------------------- checks of the pure functions --------------------- *)
\* expressions with nested aggregate calls: t1 > t2
PureLeaves == {InnerCol("x"), Lit}
RECURSIVE PureTerms(_)
PureTerms(depth) ==
    IF depth = 0 THEN PureLeaves
    ELSE PureLeaves \cup {Fn(op, <<t>>) : op \in {"max", "min", "count"}, t \in PureTerms(depth - 1)}

PureExprs == {Fn("cmp", <<t1, t2>>) : t1 \in PureTerms(MaxPureDepth), t2 \in PureTerms(MaxPureDepth)}

InitPure ==
    /\ node = [n \in Nodes |-> NoNode]
    /\ mem = [r \in Refs |-> <<>>]
    /\ ret = NoRet
    /\ trace = <<>>
    /\ pin \in [fn : {"canBePushedDownIntoDerived"}, expr : PureExprs]
    /\ pout = <<>>
    /\ firstQP = [n \in Nodes |-> NilQP]
    /\ NoServer

ApplyCanBePushedDownIntoDerived ==
    /\ pout = <<>>
    /\ pin.fn = "canBePushedDownIntoDerived"
    /\ pout' = <<canBePushedDownIntoDerived(pin.expr)>>
    /\ UNCHANGED <<node, mem, ret, trace, pin, firstQP>>
    /\ UNCHANGED serverVars

NextPure == ApplyCanBePushedDownIntoDerived

SpecPure == InitPure /\ [][NextPure]_vars

(* -------------------- checks of findOutputColumn ---------------------- *)
\* select items: *, a, b, a AS y, COUNT(x), COUNT(x) AS y
FindItems ==
    {Star, Aliased(InnerCol("a"), ""), Aliased(InnerCol("b"), ""), Aliased(InnerCol("a"), "y"),
     Aliased(Fn("count", <<InnerCol("x")>>), ""), Aliased(Fn("count", <<InnerCol("x")>>), "y")}

\* the select lists of 1..MaxSelectLen items
SelectLists == UNION {[1..k -> FindItems] : k \in 1..MaxSelectLen}

\* the names looked for: a and y
FindNames == {Col("a", "", DerivedTableId), Col("y", "", DerivedTableId)}

InitFind ==
    /\ node = [n \in Nodes |-> NoNode]
    /\ mem = [r \in Refs |-> <<>>]
    /\ ret = NoRet
    /\ trace = <<>>
    /\ pin \in [fn : {"findOutputColumn"}, query : SelectLists, name : FindNames]
    /\ pout = <<>>
    /\ firstQP = [n \in Nodes |-> NilQP]
    /\ NoServer

ApplyFindOutputColumn ==
    /\ pout = <<>>
    /\ pin.fn = "findOutputColumn"
    /\ pout' = <<findOutputColumn(pin.query, pin.name)>>
    /\ UNCHANGED <<node, mem, ret, trace, pin, firstQP>>
    /\ UNCHANGED serverVars

NextFind == ApplyFindOutputColumn

SpecFind == InitFind /\ [][NextFind]_vars

(* ===================== the MySQL protocol server ====================== *)
\* for i := 0; i < 100; i++
MaxPolls == 100

\* after initMySQLProtocol: nothing is served if neither the port nor the
\* socket path is set; else the handle is set and the listeners of the
\* configured kinds accept
InitServer ==
    /\ node = [n \in Nodes |-> NoNode]
    /\ mem = [r \in Refs |-> <<>>]
    /\ ret = NoRet
    /\ trace = <<>>
    /\ pin = <<>>
    /\ pout = <<>>
    /\ firstQP = [n \in Nodes |-> NilQP]
    /\ life = [c \in Conns |-> "new"]
    /\ session = [c \in Conns |-> NewSession]
    /\ handler = [c \in Conns |-> Idle]
    /\ connections = {}
    /\ busyConnections = 0
    /\ \E tcp, unix \in {"nil", "listening"} :
         /\ listeners = [tcp |-> tcp, unix |-> unix]
         /\ vtgateHandle = IF tcp = "nil" /\ unix = "nil" THEN "nil" ELSE "set"
    /\ netClosed = {}
    /\ drain = [pc |-> "none", observed |-> 0, waited |-> FALSE]
    /\ rb = [pc |-> "none", i |-> 0]

(* ------------------------ vtgateHandler.NewConnection ------------------ *)
\* a listener accepts the connection and registers it, under vh.mu
NewConnection(c) ==
    /\ life[c] = "new"
    /\ \E l \in {"tcp", "unix"} : listeners[l] = "listening"
    /\ life' = [life EXCEPT ![c] = "open"]
    /\ connections' = connections \cup {c}
    /\ UNCHANGED <<session, handler, busyConnections, listeners, vtgateHandle, netClosed,
                   drain, rb>>
    /\ UNCHANGED derivedVars

(* ------------- ComQuery, ComPrepare, ComStmtExecute -------------------- *)
\* slip: the call counts the connection whatever its session says
countsOnEntry_Always(sess) == TRUE

\* if !session.InTransaction { atomic.AddInt32(&busyConnections, 1) }
countsOnEntry(sess) == ~sess.InTransaction

\* the deferred: if !session.InTransaction { atomic.AddInt32(&busyConnections, -1) }
uncountsOnReturn(sess) == ~sess.InTransaction

\* the call up to the deferred function is in place
CommandEnter(c, op) ==
    /\ life[c] = "open"
    /\ handler[c] = Idle
    /\ c \notin netClosed
    /\ handler' = [handler EXCEPT ![c] = [op |-> op, pc |-> "execute", decr |-> FALSE,
                                          err |-> FALSE]]
    /\ busyConnections' = IF countsOnEntry(session[c])
                          THEN busyConnections + 1
                          ELSE busyConnections
    /\ UNCHANGED <<life, session, connections, listeners, vtgateHandle, netClosed, drain, rb>>
    /\ UNCHANGED derivedVars

\* vtg.Execute, vtg.StreamExecute or vtg.Prepare: the statement may open or
\* end a transaction of the session, in place, and may fail
CommandExecute(c, inTransaction, err) ==
    /\ handler[c].op \in Commands
    /\ handler[c].pc = "execute"
    /\ session' = [session EXCEPT ![c].InTransaction = inTransaction]
    /\ handler' = [handler EXCEPT ![c].pc = "return", ![c].err = err]
    /\ UNCHANGED <<life, connections, busyConnections, listeners, vtgateHandle, netClosed,
                   drain, rb>>
    /\ UNCHANGED derivedVars

\* the call returns: the deferred function runs
CommandReturn(c) ==
    /\ handler[c].op \in Commands
    /\ handler[c].pc = "return"
    /\ busyConnections' = IF uncountsOnReturn(session[c])
                          THEN busyConnections - 1
                          ELSE busyConnections
    /\ handler' = [handler EXCEPT ![c] = Idle]
    /\ UNCHANGED <<life, session, connections, listeners, vtgateHandle, netClosed, drain, rb>>
    /\ UNCHANGED derivedVars

(* ------------- ComResetConnection, ConnectionClosed -------------------- *)
\* if session.InTransaction { defer atomic.AddInt32(&busyConnections, -1) }
ComResetConnectionEnter(c) ==
    /\ life[c] = "open"
    /\ handler[c] = Idle
    /\ c \notin netClosed
    /\ handler' = [handler EXCEPT ![c] = [op |-> "ComResetConnection", pc |-> "execute",
                                          decr |-> session[c].InTransaction, err |-> FALSE]]
    /\ UNCHANGED <<life, session, connections, busyConnections, listeners, vtgateHandle,
                   netClosed, drain, rb>>
    /\ UNCHANGED derivedVars

\* the connection ended, by the client or after c.Close()
ConnectionClosedEnter(c) ==
    /\ life[c] = "open"
    /\ handler[c] = Idle
    /\ handler' = [handler EXCEPT ![c] = [op |-> "ConnectionClosed", pc |-> "execute",
                                          decr |-> session[c].InTransaction, err |-> FALSE]]
    /\ UNCHANGED <<life, session, connections, busyConnections, listeners, vtgateHandle,
                   netClosed, drain, rb>>
    /\ UNCHANGED derivedVars

\* vtg.CloseSession: the transaction of the session is rolled back and the
\* session reset, whether or not an error is reported
CloseSession(c, err) ==
    /\ handler[c].op \in {"ComResetConnection", "ConnectionClosed"}
    /\ handler[c].pc = "execute"
    /\ session' = [session EXCEPT ![c].InTransaction = FALSE]
    /\ handler' = [handler EXCEPT ![c].pc = "return", ![c].err = err]
    /\ UNCHANGED <<life, connections, busyConnections, listeners, vtgateHandle, netClosed,
                   drain, rb>>
    /\ UNCHANGED derivedVars

ComResetConnectionReturn(c) ==
    /\ handler[c].op = "ComResetConnection"
    /\ handler[c].pc = "return"
    /\ busyConnections' = IF handler[c].decr THEN busyConnections - 1 ELSE busyConnections
    /\ handler' = [handler EXCEPT ![c] = Idle]
    /\ UNCHANGED <<life, session, connections, listeners, vtgateHandle, netClosed, drain, rb>>
    /\ UNCHANGED derivedVars

\* the deferred functions, last first: the counter, then
\* delete(vh.connections, c) under vh.mu
ConnectionClosedReturn(c) ==
    /\ handler[c].op = "ConnectionClosed"
    /\ handler[c].pc = "return"
    /\ busyConnections' = IF handler[c].decr THEN busyConnections - 1 ELSE busyConnections
    /\ connections' = connections \ {c}
    /\ life' = [life EXCEPT ![c] = "gone"]
    /\ handler' = [handler EXCEPT ![c] = Idle]
    /\ UNCHANGED <<session, listeners, vtgateHandle, netClosed, drain, rb>>
    /\ UNCHANGED derivedVars

(* ------------------- shutdownMysqlProtocolAndDrain --------------------- *)
\* slip: one busy connection is let through
stillBusy_MoreThanOne(n) == n > 1

\* for atomic.LoadInt32(&busyConnections) != 0
stillBusy(n) == n # 0

\* mysqlListener.Close(), mysqlUnixListener.Close(), both set to nil
DrainCloseListeners ==
    /\ drain.pc = "none"
    /\ listeners' = [tcp |-> "nil", unix |-> "nil"]
    /\ drain' = [drain EXCEPT !.pc = "check"]
    /\ UNCHANGED <<life, session, handler, connections, busyConnections, vtgateHandle,
                   netClosed, rb>>
    /\ UNCHANGED derivedVars

\* if atomic.LoadInt32(&busyConnections) > 0
DrainCheck ==
    /\ drain.pc = "check"
    /\ drain' = [pc |-> IF busyConnections > 0 THEN "wait" ELSE "returned",
                 observed |-> busyConnections, waited |-> busyConnections > 0]
    /\ UNCHANGED <<life, session, handler, connections, busyConnections, listeners,
                   vtgateHandle, netClosed, rb>>
    /\ UNCHANGED derivedVars

\* one turn of the loop: load the counter, sleep if it is not zero
DrainPoll ==
    /\ drain.pc = "wait"
    /\ drain' = [drain EXCEPT !.pc = IF stillBusy(busyConnections) THEN "wait" ELSE "returned",
                              !.observed = busyConnections]
    /\ UNCHANGED <<life, session, handler, connections, busyConnections, listeners,
                   vtgateHandle, netClosed, rb>>
    /\ UNCHANGED derivedVars

(* -------------------------- rollbackAtShutdown ------------------------- *)
\* slip: the registry is never found empty
registryEmpty_Never(n) == FALSE

\* if vtgateHandle.numConnections() == 0
registryEmpty(n) == n = 0

\* if vtgateHandle == nil return; else c.Close() on every connection of
\* the registry, under vh.mu
RollbackCloseAll ==
    /\ rb.pc = "none"
    /\ IF vtgateHandle = "nil"
       THEN /\ rb' = [rb EXCEPT !.pc = "returned"]
            /\ netClosed' = netClosed
       ELSE /\ rb' = [rb EXCEPT !.pc = "poll"]
            /\ netClosed' = netClosed \cup connections
    /\ UNCHANGED <<life, session, handler, connections, busyConnections, listeners,
                   vtgateHandle, drain>>
    /\ UNCHANGED derivedVars

\* one turn of the loop, or its end: rb.i counts the turns that slept
RollbackPoll ==
    /\ rb.pc = "poll"
    /\ rb' = IF rb.i < MaxPolls
             THEN IF registryEmpty(Cardinality(connections))
                  THEN [pc |-> "returned", i |-> rb.i]
                  ELSE [pc |-> "poll", i |-> rb.i + 1]
             ELSE [rb EXCEPT !.pc = "gaveUp"]
    /\ UNCHANGED <<life, session, handler, connections, busyConnections, listeners,
                   vtgateHandle, netClosed, drain>>
    /\ UNCHANGED derivedVars

(* ------------------------------ Next ---------------------------------- *)
\* what the clients do on their connections
NextConn ==
    \/ \E c \in Conns : NewConnection(c)
    \/ \E c \in Conns, op \in Commands : CommandEnter(c, op)
    \/ \E c \in Conns, inTransaction \in BOOLEAN, err \in BOOLEAN :
         CommandExecute(c, inTransaction, err)
    \/ \E c \in Conns : CommandReturn(c)
    \/ \E c \in Conns : ComResetConnectionEnter(c)
    \/ \E c \in Conns : ConnectionClosedEnter(c)
    \/ \E c \in Conns, err \in BOOLEAN : CloseSession(c, err)
    \/ \E c \in Conns : ComResetConnectionReturn(c)
    \/ \E c \in Conns : ConnectionClosedReturn(c)

DrainStep == DrainCloseListeners \/ DrainCheck \/ DrainPoll
RollbackStep == RollbackCloseAll \/ RollbackPoll

\* the server with its clients and the termination hook
NextServer == NextConn \/ DrainStep

SpecServer == InitServer /\ [][NextServer]_vars

\* the goroutine of the hook keeps running
SpecServerFair == SpecServer /\ WF_vars(DrainStep)

\* the server with its clients and the close hook: the clients run
\* queries and go away
NextRollback ==
    \/ \E c \in Conns : NewConnection(c)
    \/ \E c \in Conns : CommandEnter(c, "ComQuery")
    \/ \E c \in Conns, inTransaction \in BOOLEAN : CommandExecute(c, inTransaction, FALSE)
    \/ \E c \in Conns : CommandReturn(c)
    \/ \E c \in Conns : ConnectionClosedEnter(c)
    \/ \E c \in Conns, err \in BOOLEAN : CloseSession(c, err)
    \/ \E c \in Conns : ConnectionClosedReturn(c)
    \/ RollbackStep

SpecRollback == InitServer /\ [][NextRollback]_vars /\ WF_vars(RollbackStep)

(* ============================ properties ============================== *)
\* every node of an expression tree
RECURSIVE SubExprs(_)
SubExprs(e) == {e} \cup UNION {SubExprs(e.args[i]) : i \in 1..Len(e.args)}

\* some node of the expression is an aggregate other than MIN and MAX
HasOtherAggr(e) == \E sub \in SubExprs(e) : sub.op \in AggrOps \ MinMaxOps

Live == {n \in Nodes : node[n].exists}

\* the select-list index (or -1) column c of node n resolves to
ResolvedIdx(n, c) == findOutputColumn(node[n].Query, c).idx

\* the step is a call of AddColumn on node n
AddColumnStep(n) == ret'.op = "AddColumn" /\ ret'.recv = n
\* the step is a call of AddPredicate on node n
AddPredicateStep(n) == ret'.op = "AddPredicate" /\ ret'.recv = n

(* ---- C1 ---- *)
\* C1 as stated: in every reachable state of a Derived node,
\* len(Columns) = len(ColumnsOffset).
C1_SameLength ==
    \A n \in Live : Len(Columns(n)) = Len(ColumnsOffset(n))

\* C1 amended: len(ColumnsOffset) is the number of distinct select-list
\* indexes (-1 included) the entries of Columns resolve to; so it is at
\* most len(Columns), and equal to it exactly when no two requested columns
\* resolve to the same index.
C1_OffsetsCountDistinctIndexes ==
    \A n \in Live :
        /\ Len(ColumnsOffset(n)) =
              Cardinality({ResolvedIdx(n, Columns(n)[k]) : k \in 1..Len(Columns(n))})
        /\ Len(ColumnsOffset(n)) <= Len(Columns(n))

\* a clone with fewer offsets than columns, after a failing AddColumn
C1_Witness ==
    /\ node["clone"].exists
    /\ Len(ColumnsOffset("clone")) < Len(Columns("clone"))
    /\ ret.op = "AddColumn" /\ ret.err # NoErr

(* ---- C2 ---- *)
\* C2: a successful AddColumn of a column directly followed by AddColumn of
\* a semantically equal column on the same node returns the same offset, and
\* Columns does not grow on the second call.
C2_IdempotentColumnRequest ==
    [][\A n \in Live :
         (/\ ret.op = "AddColumn" /\ ret.recv = n /\ ret.err = NoErr
          /\ AddColumnStep(n)
          /\ EqualsExprWithDeps(ret.arg, ret'.arg))
         => /\ ret'.err = NoErr
            /\ ret'.offset = ret.offset
            /\ Len(Columns(n)') = Len(Columns(n))]_vars

(* ---- C3 ---- *)
\* C3: the offset a successful AddColumn(c) returns is the position in
\* Columns of the entry that is semantically equal to c.
C3_OffsetIsColumnsPosition ==
    \A n \in Live :
        (ret.op = "AddColumn" /\ ret.recv = n /\ ret.err = NoErr)
        => /\ ret.offset < Len(Columns(n))
           /\ EqualsExprWithDeps(Columns(n)[ret.offset + 1], ret.arg)

(* ---- C4 ---- *)
\* C4: no two entries of Columns are semantically equal.
C4_ColumnsUnique ==
    \A n \in Live :
        \A i, j \in 1..Len(Columns(n)) :
            i # j => ~EqualsExprWithDeps(Columns(n)[i], Columns(n)[j])

\* a column that was already there, and not as the last entry, was asked for again
C4_Witness ==
    \E n \in Live :
        /\ ret.op = "AddColumn" /\ ret.recv = n /\ ret.err = NoErr
        /\ Len(Columns(n)) >= 2
        /\ EqualsExprWithDeps(ret.arg, Columns(n)[1])

(* ---- C5 ---- *)
\* C5: when AddColumn appends a column, the index it resolves to (-1
\* included) is held by exactly one slot of ColumnsOffset; if an earlier
\* column already resolved to that index ColumnsOffset is left as it is;
\* the column gets an entry of its own at the end of Columns; and a
\* successful request returns the slot that holds the index. ColumnsOffset
\* only ever grows at its end, so the slot is the one every request for a
\* column of that index was given.
C5_SharedOffsetSlot ==
    [][\A n \in Live :
         (AddColumnStep(n) /\ Len(Columns(n)') > Len(Columns(n)))
         => LET i == ResolvedIdx(n, ret'.arg)
                slots == {k \in 1..Len(ColumnsOffset(n)') : ColumnsOffset(n)'[k] = i}
            IN /\ Cardinality(slots) = 1
               /\ Columns(n)' = Append(Columns(n), ret'.arg)
               /\ (\E k \in 1..Len(Columns(n)) : ResolvedIdx(n, Columns(n)[k]) = i)
                     => ColumnsOffset(n)' = ColumnsOffset(n)
               /\ SubSeq(ColumnsOffset(n)', 1, Len(ColumnsOffset(n))) = ColumnsOffset(n)
               /\ ret'.err = NoErr => (ret'.offset + 1) \in slots]_vars

\* two columns that resolve to the same named select item share slot 0
C5_Witness ==
    \E n \in Live :
        /\ ret.op = "AddColumn" /\ ret.recv = n /\ ret.err = NoErr
        /\ Len(Columns(n)) = 2 /\ ColumnsOffset(n) = <<0>>
        /\ ret.arg = Columns(n)[2] /\ ret.offset = 0
        /\ ~EqualsExprWithDeps(Columns(n)[1], Columns(n)[2])

(* ---- C6 ---- *)
\* C6: AddColumn on the clone leaves Columns, ColumnsOffset and
\* ColumnAliases of the original as they are, and AddColumn on the original
\* leaves those of the clone as they are.
C6_CloneIndependence ==
    [][\A n \in Live : \A m \in Live \ {n} :
         AddColumnStep(n)
         => /\ Columns(m)' = Columns(m)
            /\ ColumnsOffset(m)' = ColumnsOffset(m)
            /\ ColumnAliases(m)' = ColumnAliases(m)]_vars

\* cloned with one column, then the original and the clone each got another one
C6_Witness ==
    /\ node["clone"].exists
    /\ Len(Columns("orig")) = 2 /\ Len(Columns("clone")) = 2
    /\ Columns("orig")[1] = Columns("clone")[1]
    /\ Columns("orig")[2] # Columns("clone")[2]
    /\ ColumnsOffset("orig") # ColumnsOffset("clone")

\* the predicate as Derived.AddPredicate rewrites it for the subquery of node n
Rewritten(n, expr) ==
    RewriteDerivedTableExpression(expr, TableInfoForExpr(expr), node[n].Query, ColumnAliases(n))

\* node n has a Source and it is no Union
HasNonUnionSource(n) == node[n].Source \in SourceOps /\ node[n].Source.kind # "Union"

(* ---- C7 ---- *)
\* C7: with a Source that is no Union, a predicate the semantic table
\* attributes to a single table and whose rewritten form has no aggregate
\* other than MIN/MAX, AddPredicate calls Source.AddPredicate exactly once,
\* with the rewritten expression; when that call returns no error, Source
\* becomes the operator it returned, every other field of the node is as
\* before, and the root returned is the Derived node itself.
C7_PushedIntoSource ==
    [][\A n \in Live :
         (/\ AddPredicateStep(n) /\ HasNonUnionSource(n)
          /\ ret'.sem = NoErr /\ TableInfoForExpr(ret'.arg).err = NoErr
          /\ ~HasOtherAggr(Rewritten(n, ret'.arg)))
         => /\ Len(trace') = 1
            /\ trace'[1].method = "AddPredicate"
            /\ trace'[1].recv = node[n].Source
            /\ trace'[1].arg = Rewritten(n, ret'.arg)
            /\ trace'[1].out.err = NoErr
                 => /\ ret'.root = DerivedRoot(n) /\ ret'.err = NoErr
                    /\ node' = [node EXCEPT ![n].Source = trace'[1].out.root]
                    /\ mem' = mem]_vars

\* a predicate was rewritten, pushed, and the Source replaced by another operator
C7_Witness ==
    \E n \in Live :
        /\ ret.op = "AddPredicate" /\ ret.recv = n /\ ret.err = NoErr
        /\ ret.root = DerivedRoot(n)
        /\ Len(trace) = 1 /\ trace[1].arg # ret.arg
        /\ trace[1].recv.kind = "Route"
        /\ node[n].Source = trace[1].out.root /\ node[n].Source # trace[1].recv
        /\ Len(Columns(n)) > 0

(* ---- C8 ---- *)
\* C8: with a Source that is no Union and a predicate whose rewritten form
\* contains an aggregate other than MIN/MAX, AddPredicate does not call the
\* Source, returns a Filter over the Derived node whose predicates are
\* exactly the original predicate, and changes no field of the node.
C8_AggregateKeptAbove ==
    [][\A n \in Live :
         (/\ AddPredicateStep(n) /\ node[n].Source.kind # "Union"
          /\ ret'.sem = NoErr /\ TableInfoForExpr(ret'.arg).err = NoErr
          /\ HasOtherAggr(Rewritten(n, ret'.arg)))
         => /\ trace' = <<>>
            /\ ret'.root = FilterRoot(n, ret'.arg) /\ ret'.err = NoErr
            /\ node' = node /\ mem' = mem]_vars

\* a predicate on a column that stands for COUNT(x) in the subquery was kept above
C8_Witness ==
    \E n \in Live :
        /\ ret.op = "AddPredicate" /\ ret.recv = n /\ ret.sem = NoErr
        /\ TableInfoForExpr(ret.arg).err = NoErr
        /\ ~HasOtherAggr(ret.arg) /\ HasOtherAggr(Rewritten(n, ret.arg))
        /\ ret.root.kind = "Filter" /\ node[n].Source.kind = "Route"
        /\ Len(Columns(n)) > 0

(* ---- C9 ---- *)
\* C9: canBePushedDownIntoDerived(expr) is true exactly when no node of the
\* expression tree, the arguments of MIN and MAX calls included, is an
\* aggregate other than MIN or MAX.
C9_PushableIffOnlyMinMax ==
    pout # <<>> => (pout[1] <=> ~HasOtherAggr(pin.expr))

\* rejected for an aggregate that sits inside the argument of a MIN or MAX
C9_Witness ==
    /\ pout = <<FALSE>>
    /\ \E sub \in SubExprs(pin.expr) :
          sub.op \in MinMaxOps /\ HasOtherAggr(sub.args[1])
    /\ \A sub \in SubExprs(pin.expr) :
          sub.op \in AggrOps \ MinMaxOps =>
             \E m \in SubExprs(pin.expr) : m.op \in MinMaxOps /\ sub \in SubExprs(m.args[1])

(* ---- C10 ---- *)
\* C10: with a Source that is no Union, when the semantic table answers
\* ErrNotSingleTable AddPredicate returns, with no error, a Filter over the
\* Derived node whose predicates are exactly the original expression, calls
\* nothing on the Source and changes no field of the node; any other error
\* of the table attribution is returned with a nil root.
C10_NotSingleTableKeptAbove ==
    [][\A n \in Live :
         (AddPredicateStep(n) /\ node[n].Source.kind # "Union")
         => /\ (ret'.sem = NoErr /\ TableInfoForExpr(ret'.arg).err = ErrNotSingleTable)
                 => /\ trace' = <<>>
                    /\ ret'.root = FilterRoot(n, ret'.arg) /\ ret'.err = NoErr
                    /\ node' = node /\ mem' = mem
            /\ ret'.sem # NoErr
                 => /\ trace' = <<>>
                    /\ ret'.root = NilRoot /\ ret'.err = ret'.sem]_vars

\* a predicate over two tables was kept above a node that holds columns
C10_Witness ==
    \E n \in Live :
        /\ ret.op = "AddPredicate" /\ ret.recv = n /\ ret.sem = NoErr
        /\ Cardinality(DirectDeps(ret.arg)) = 2
        /\ ret.root = FilterRoot(n, ret.arg) /\ ret.err = NoErr
        /\ node[n].Source.kind = "Route"
        /\ Len(Columns(n)) > 0

(* ---- C11 ---- *)
\* C11: when the Source is a Union, AddPredicate hands the original,
\* unrewritten expression to Source.AddPredicate exactly once, whatever the
\* table attribution and the aggregates of the expression are, makes no
\* Filter, sets Source to the operator the Union returned, changes no other
\* field and returns the Derived node.
C11_UnionDelegation ==
    [][\A n \in Live :
         (AddPredicateStep(n) /\ node[n].Source.kind = "Union")
         => /\ Len(trace') = 1
            /\ trace'[1].method = "AddPredicate"
            /\ trace'[1].recv = node[n].Source
            /\ trace'[1].arg = ret'.arg
            /\ ret'.root = DerivedRoot(n)
            /\ ret'.err = trace'[1].out.err
            /\ node' = [node EXCEPT ![n].Source = trace'[1].out.root]
            /\ mem' = mem]_vars

\* a predicate with COUNT, which the semantic table would not even
\* attribute, went to the Union as it was, and the Union returned another operator
C11_Witness ==
    \E n \in Live :
        /\ ret.op = "AddPredicate" /\ ret.recv = n /\ ret.err = NoErr
        /\ ret.sem = OtherErr /\ HasOtherAggr(ret.arg)
        /\ ret.root = DerivedRoot(n)
        /\ Len(trace) = 1 /\ trace[1].recv.kind = "Union" /\ trace[1].arg = ret.arg
        /\ node[n].Source = [kind |-> "Route"]
        /\ Len(Columns(n)) > 0

(* ---- C12 ---- *)
\* C12: with a Source that is no Union, AddPredicate forwards a predicate
\* to the Source only when the predicate is attributable to the table of
\* this very Derived node (its TableId); a predicate attributable to a
\* single other table is not rewritten and forwarded.
C12_OnlyOwnTablePushed ==
    [][\A n \in Live :
         (AddPredicateStep(n) /\ HasNonUnionSource(n) /\ trace' # <<>>)
         => /\ TableInfoForExpr(ret'.arg).err = NoErr
            /\ TableInfoForExpr(ret'.arg).tbl = node[n].TableId]_vars

(* ---- C13 ---- *)
\* C13: AddColumn of a column that is not yet in Columns and that resolves:
\* if it resolves to -1, Source.AddColumn is called exactly once, with the
\* unqualified column, and when that call returns no error Source becomes
\* the operator it returned (also when -1 was in ColumnsOffset before); if
\* it resolves to a select-list index, Source.AddColumn is not called and
\* Source stays as it is.
C13_WildcardColumnPropagated ==
    [][\A n \in Live :
         (/\ AddColumnStep(n) /\ IsColName(ret'.arg)
          /\ \A k \in 1..Len(Columns(n)) : ~EqualsExprWithDeps(ret'.arg, Columns(n)[k])
          /\ findOutputColumn(node[n].Query, ret'.arg).err = NoErr)
         => IF ResolvedIdx(n, ret'.arg) = -1
            THEN /\ Len(trace') = 1
                 /\ trace'[1].method = "AddColumn"
                 /\ trace'[1].recv = node[n].Source
                 /\ trace'[1].arg = Col(ret'.arg.name, "", 0)
                 /\ trace'[1].out.err = NoErr => node'[n].Source = trace'[1].out.root
            ELSE /\ trace' = <<>>
                 /\ node'[n].Source = node[n].Source]_vars

\* a second column that only the wildcard provides was handed to the
\* Source, which returned another operator
C13_Witness ==
    \E n \in Live :
        /\ ret.op = "AddColumn" /\ ret.recv = n /\ ret.err = NoErr
        /\ Len(Columns(n)) = 2 /\ ColumnsOffset(n) = <<-1>>
        /\ ret.arg = Columns(n)[2]
        /\ Len(trace) = 1 /\ trace[1].method = "AddColumn"
        /\ node[n].Source = trace[1].out.root /\ node[n].Source # trace[1].recv

\* the select item is found under the name: by its alias or, having none,
\* as the bare column of that name
Matches(item, name) ==
    /\ item.kind = "aliased"
    /\ \/ item.as = name.name
       \/ item.as = "" /\ item.expr.op = "col" /\ item.expr.name = name.name

\* the select item is an expression that is no bare column and has no alias
NeedsAlias(item) == item.kind = "aliased" /\ item.as = "" /\ item.expr.op # "col"

HasStarItem(q) == \E i \in 1..Len(q) : q[i].kind = "star"
MatchingItems(q, name) == {i \in 1..Len(q) : Matches(q[i], name)}
FirstMatch(q, name) == CHOOSE i \in MatchingItems(q, name) : \A k \in MatchingItems(q, name) : i <= k

AddColumnLeftNoTrace(n) ==
    /\ ret'.root = NilRoot
    /\ trace' = <<>>
    /\ Columns(n)' = Columns(n)
    /\ ColumnsOffset(n)' = ColumnsOffset(n)
    /\ node'[n].Source = node[n].Source

C17_NonColumnIsInternalError ==
    [][\A n \in Live :
         (AddColumnStep(n) /\ ret'.arg.op # "col")
         => /\ ret'.err = VT13001
            /\ ret'.root = NilRoot
            /\ trace' = <<>>
            /\ node' = node
            /\ mem' = mem]_vars

\* COUNT(a) was asked of a node that already outputs a column
C17_Witness ==
    /\ ret.op = "AddColumn"
    /\ ret.arg.op # "col"
    /\ ret.err = VT13001
    /\ ret.recv \in Live
    /\ Len(Columns(ret.recv)) > 0

\* the step is a call of getQP, setQP or GetOrdering on node n
getQPStep(n) == ret'.op = "getQP" /\ ret'.recv = n
GetOrderingStep(n) == ret'.op = "GetOrdering" /\ ret'.recv = n

(* ---- C18 ---- *)
\* C18: once the QP of a node is populated, no step of getQP, setQP,
\* AddColumn, AddPredicate, SetInputs or GetOrdering on the node replaces it
\* with another value.
C18_QPNeverReplaced ==
    [][\A n \in Live : node[n].QP # NilQP => node'[n].QP = node[n].QP]_vars

\* every operation but setQP keeps a populated QP
QPKeptExceptBySetQP ==
    [][\A n \in Live :
         (node[n].QP # NilQP /\ ret'.op # "setQP") => node'[n].QP = node[n].QP]_vars

(* ---- C19 ---- *)
\* C19: after the first successful getQP of a node, every later getQP of the
\* node returns the value that call returned, with no error and without
\* building again; a failed build returns its error and leaves QP unpopulated.
C19_BuiltOnceAndKept ==
    [][\A n \in Live :
         getQPStep(n)
         => /\ firstQP[n] # NilQP
               => /\ ret'.err = NoErr
                  /\ ret'.qp = firstQP[n]
                  /\ trace' = <<>>
            /\ (trace' # <<>> /\ trace'[1].out.err # NoErr)
               => /\ ret'.err = trace'[1].out.err
                  /\ node'[n].QP = NilQP]_vars

\* getQP alone memoizes: on a populated node it returns the stored value and
\* builds nothing; on an unpopulated node over a SELECT it builds once and
\* stores what it built
getQPMemoizes ==
    [][\A n \in Live :
         getQPStep(n)
         => IF node[n].QP # NilQP
            THEN /\ ret'.err = NoErr /\ ret'.qp = node[n].QP
                 /\ trace' = <<>> /\ node' = node
            ELSE \/ node[n].QueryType # "Select" /\ trace' = <<>> /\ node' = node
                 \/ /\ Len(trace') = 1
                    /\ node' = [node EXCEPT ![n].QP = trace'[1].out.qp]
                    /\ ret'.qp = trace'[1].out.qp
                    /\ ret'.err = trace'[1].out.err]_vars

(* ---- C20 ---- *)
\* C20: GetOrdering fails with the internal error exactly when the QP of the
\* node is not populated, and returns the OrderExprs of the stored
\* projection with no error otherwise; it changes no node and no slice and
\* calls nothing.
C20_GetOrderingNeedsQP ==
    [][\A n \in Live :
         GetOrderingStep(n)
         => /\ IF node[n].QP = NilQP
               THEN ret'.err = VT13001
               ELSE ret'.err = NoErr /\ ret'.ordering = OrderExprs(node[n].QP)
            /\ node' = node
            /\ mem' = mem
            /\ trace' = <<>>]_vars

\* the ordering of a stored projection was returned
C20_Witness ==
    /\ ret.op = "GetOrdering"
    /\ ret.err = NoErr
    /\ ret.ordering # <<>>
    /\ node[ret.recv].QP \in BuiltQPs

\* the step is a call of Clone on the original
CloneStep == ret'.op = "Clone" /\ ret'.recv = "orig"

(* ---- C21 ---- *)
\* C21: Clone returns a new node whose Source is the first of the given
\* children, whose Query, TableId and Alias are those of the original, and
\* whose Columns, ColumnsOffset and ColumnAliases equal, element by element,
\* those of the original at the time of the call; the original and its
\* slices are left as they were.
C21_CloneCopiesNode ==
    [][CloneStep
       => /\ ret'.root = DerivedRoot("clone")
          /\ node'["clone"].exists
          /\ node'["clone"].Source = ret'.inputs[1]
          /\ node'["clone"].Query = node["orig"].Query
          /\ node'["clone"].TableId = node["orig"].TableId
          /\ node'["clone"].Alias = node["orig"].Alias
          /\ Columns("clone")' = Columns("orig")
          /\ ColumnsOffset("clone")' = ColumnsOffset("orig")
          /\ ColumnAliases("clone")' = ColumnAliases("orig")
          /\ node'["orig"] = node["orig"]
          /\ Columns("orig")' = Columns("orig")
          /\ ColumnsOffset("orig")' = ColumnsOffset("orig")
          /\ ColumnAliases("orig")' = ColumnAliases("orig")]_vars

\* the original had two columns on one offset and got another child in its clone
C21_Witness ==
    /\ ret.op = "Clone"
    /\ node["clone"].Source # node["orig"].Source
    /\ Len(Columns("orig")) = 2 /\ Len(ColumnsOffset("orig")) = 1
    /\ Columns("clone") = Columns("orig")
    /\ ColumnsOffset("clone") = ColumnsOffset("orig")

\* the step is a call of Inputs or of SetInputs on node n
InputsStep(n) == ret'.op = "Inputs" /\ ret'.recv = n
SetInputsStep(n) == ret'.op = "SetInputs" /\ ret'.recv = n

(* ---- C22 ---- *)
\* C22: Inputs returns the list of one element, the Source, and changes
\* nothing; SetInputs of a list that is not empty puts its first element
\* in Source and changes no other field and no slice; SetInputs of what
\* Inputs returns leaves the node as it was.
C22_OneChildExposed ==
    [][\A n \in Live :
         /\ InputsStep(n)
            => /\ ret'.ops = <<node[n].Source>>
               /\ node' = node /\ mem' = mem
         /\ (SetInputsStep(n) /\ ret'.ops # <<>>)
            => /\ node' = [node EXCEPT ![n].Source = ret'.ops[1]]
               /\ mem' = mem
         /\ (SetInputsStep(n) /\ ret'.ops = <<node[n].Source>>)
            => node' = node]_vars

\* two children were handed to a node with a column and a stored projection,
\* and the first one, not the last, is the Source now
C22_Witness ==
    /\ ret.op = "SetInputs"
    /\ Len(ret.ops) = 2
    /\ node[ret.recv].Source = ret.ops[1]
    /\ node[ret.recv].Source # ret.ops[2]
    /\ node[ret.recv].QP # NilQP
    /\ Len(Columns(ret.recv)) > 0

(* ---- C23 ---- *)
\* C23: whenever AddColumn on a node returns an error, the failure of the
\* Source.AddColumn call for a wildcard column included, Columns,
\* ColumnsOffset and Source of the node are what they were before the call.
C23_FailedAddColumnChangesNothing ==
    [][\A n \in Live :
         (AddColumnStep(n) /\ ret'.err # NoErr)
         => /\ Columns(n)' = Columns(n)
            /\ ColumnsOffset(n)' = ColumnsOffset(n)
            /\ node'[n].Source = node[n].Source]_vars

(* ---- C24 ---- *)
\* C24: whenever AddPredicate on a node returns an error, from the table
\* attribution or from Source.AddPredicate, with a Union as Source or not,
\* the root it returns is nil and the Source of the node is the child it
\* had before the call.
C24_FailedAddPredicateChangesNothing ==
    [][\A n \in Live :
         (AddPredicateStep(n) /\ ret'.err # NoErr)
         => /\ ret'.root = NilRoot
            /\ node'[n].Source = node[n].Source]_vars

\* an error of AddColumn that does not come from the Source leaves the node
\* as it was; an error of the Source leaves Source as it was
FailedAddColumnBeforeSourceCall ==
    [][\A n \in Live :
         (AddColumnStep(n) /\ ret'.err # NoErr)
         => /\ node'[n].Source = node[n].Source
            /\ trace' = <<>> => (Columns(n)' = Columns(n) /\ ColumnsOffset(n)' = ColumnsOffset(n))]_vars

\* an error of the table attribution leaves the node as it was and returns no root
FailedAttributionChangesNothing ==
    [][\A n \in Live :
         (AddPredicateStep(n) /\ ret'.err # NoErr /\ trace' = <<>>)
         => ret'.root = NilRoot /\ node' = node]_vars

(* ---- C25 ---- *)
\* C25: Clone carries the projection over: if the QP of the original is
\* populated, the QP of the clone is populated with the same value, so
\* GetOrdering succeeds on the clone whenever it succeeds on the original.
C25_CloneCarriesQP ==
    [][(CloneStep /\ node["orig"].QP # NilQP)
       => /\ node'["clone"].QP = node["orig"].QP
          /\ GetOrderingResult("clone")'.err = GetOrderingResult("orig")'.err]_vars

(* ---- C26 ---- *)
\* C26: after any sequence of AddColumn calls on a node that starts empty,
\* ColumnsOffset holds no value twice, every value in it is -1 or an index
\* into the select list of the subquery, and ColumnsOffset is no longer than
\* Columns.
C26_OffsetsDistinctAndInRange ==
    \A n \in Live :
        /\ \A i, j \in 1..Len(ColumnsOffset(n)) :
              ColumnsOffset(n)[i] = ColumnsOffset(n)[j] => i = j
        /\ \A i \in 1..Len(ColumnsOffset(n)) :
              ColumnsOffset(n)[i] \in {-1} \cup 0..(Len(node[n].Query) - 1)
        /\ Len(ColumnsOffset(n)) <= Len(Columns(n))

\* three columns on two offsets: the wildcard, a named item, the wildcard again
C26_Witness ==
    /\ ret.op = "AddColumn"
    /\ Len(Columns(ret.recv)) = 3
    /\ Len(ColumnsOffset(ret.recv)) = 2
    /\ -1 \in {ColumnsOffset(ret.recv)[i] : i \in 1..2}
    /\ ResolvedIdx(ret.recv, Columns(ret.recv)[1]) = ResolvedIdx(ret.recv, Columns(ret.recv)[3])
    /\ ResolvedIdx(ret.recv, Columns(ret.recv)[1]) # ResolvedIdx(ret.recv, Columns(ret.recv)[2])

(* ---- C27 ---- *)
\* no handler call is running on any connection
NoCallRunning == \A c \in Conns : handler[c] = Idle

\* the open connections whose session is in a transaction
InTransactionConns == {c \in Conns : life[c] = "open" /\ session[c].InTransaction}

Quiet == NoCallRunning /\ InTransactionConns = {}

DrainAlwaysReturns == [](drain.pc # "none" => <>(drain.pc = "returned"))

(* ---- C29 ---- *)
\* C29: rollbackAtShutdown ends once it has started; on its way it calls
\* Close on every connection of the registry, then looks at the registry at
\* most MaxPolls times, returns as soon as it sees it empty and gives up
\* after MaxPolls looks at a registry that is not empty; ConnectionClosed
\* takes its connection out of the registry, also when CloseSession failed.
C29_RollbackTerminates ==
    /\ [](rb.pc = "poll" => <>(rb.pc \in {"returned", "gaveUp"}))
    /\ [](rb.i <= MaxPolls)
    /\ [][/\ (rb.pc = "none" /\ rb'.pc = "poll") => connections \subseteq netClosed'
          /\ (rb.pc = "poll" /\ rb' # rb)
             => /\ rb'.pc = "returned" <=> (connections = {} /\ rb.i < MaxPolls)
                /\ rb'.pc = "gaveUp" <=> rb.i = MaxPolls
          /\ \A c \in Conns :
               (handler[c].op = "ConnectionClosed" /\ handler[c].pc = "return"
                /\ handler'[c] = Idle)
               => c \notin connections']_vars

\* the rollback closed a connection, looked at the registry more than once
\* and saw it empty after ConnectionClosed had taken the connection out
C29_Witness ==
    /\ rb.pc = "returned"
    /\ rb.i > 0
    /\ \E c \in netClosed : life[c] = "gone"

====
